---- MODULE Spec2Model ----
(***************************************************************************)
(* A model of VirtualStoryList.vue, the virtualized paragraph list of the  *)
(* story view.  The state is the component's refs and plain variables      *)
(* (viewportHeight, scrollTop, containerWidth, rafId, the listener and the *)
(* observer it registered), its two props (paragraphs, scrollElement) and  *)
(* the geometry of the two DOM elements it can read: its own root          *)
(* (containerRef) and the external scroll container.  The computed values  *)
(* of the component (heights, offsets, totalHeight, visibleRange, ...) are *)
(* operators over that state, evaluated as the code evaluates them.        *)
(*                                                                         *)
(* A paragraph is modelled by its text length, the only property of the    *)
(* text that the script reads.  JavaScript arrays are sequences; the       *)
(* operators keep the code's 0-based indices and read element i of an      *)
(* array a through At(a, i), which is a[i] ?? 0.                           *)
(***************************************************************************)
EXTENDS Integers, Sequences, FiniteSets, TLC

VARIABLES
    paragraphs,      \* prop: the text lengths of the paragraphs
    scrollElement,   \* prop: "ext" or NoEl
    containerRef,    \* template ref: "root" while mounted, NoEl otherwise
    phase,           \* "setup", "mounted" or "unmounted"
    clientWidth,     \* DOM: element -> clientWidth
    clientHeight,    \* DOM: element -> clientHeight
    elScrollTop,     \* DOM: element -> scrollTop
    viewportHeight,  \* ref
    scrollTop,       \* ref
    containerWidth,  \* ref
    rafId,           \* the last handle requestAnimationFrame returned, 0 at first
    pendingFrames,   \* browser: handles requested and neither run nor cancelled
    listeners,       \* DOM: elements on which onScroll is a scroll listener
    observed         \* DOM: elements the component's ResizeObserver observes

vars == <<paragraphs, scrollElement, containerRef, phase, clientWidth,
          clientHeight, elScrollTop, viewportHeight, scrollTop,
          containerWidth, rafId, pendingFrames, listeners, observed>>

dom == <<clientWidth, clientHeight, elScrollTop>>
refs == <<viewportHeight, scrollTop, containerWidth>>

\* The game store (stores/gameStore.ts).
VARIABLES
    currentScript,   \* state: the script of the game, NoScript at first
    gameState,       \* state
    plotState,       \* state
    isLoading,       \* state
    error,           \* state: a message or NoMessage
    calls            \* call slot -> the call of a store action under way

storeVars == <<currentScript, gameState, plotState, isLoading, error, calls>>

----------------------------------------------------------------------------
(* Program constants. *)

lineHeightPx == 28
paragraphGap == 16
overscan == 6
MIN_VIRTUAL_PARAGRAPHS == 120
MIN_VIRTUAL_WIDTH == 900
fallbackWidth == 640
charWidthPx == 14
minCharsPerLine == 12

----------------------------------------------------------------------------
(* Bounds of the model and the inputs the environment draws from. *)

MaxAppends == 1

NoEl == "none"
Elements == {"root", "ext"}

\* The paragraphs of the component's test: `段落内容 ${i} ${'x'.repeat(120)}`,
\* 4 + 1 + digits(i) + 1 + 120 characters.
TestLength(i) == IF i < 10 THEN 127 ELSE IF i < 100 THEN 128 ELSE 129
TestParagraphs(n) == [k \in 1..n |-> TestLength(k - 1)]

InitCounts == {0, 119, 160}
AppendLengths == {300}

\* <<clientWidth, clientHeight>> of an element.
Sizes(e) ==
    IF e = "ext"
    THEN {<<0, 0>>, <<900, 0>>, <<1000, 200>>}
    ELSE {<<600, 400>>, <<1000, 400>>}

Scrolls(e) ==
    IF e = "ext" THEN {-100, 0, 2000, 2016, 50000} ELSE {0, 2000}

----------------------------------------------------------------------------
(* JavaScript helpers. *)

Max(a, b) == IF a >= b THEN a ELSE b
Min(a, b) == IF a <= b THEN a ELSE b

\* x || d on numbers: d when x is 0.
OrElse(x, d) == IF x = 0 THEN d ELSE x

\* a ?? b on element handles.
Coalesce(a, b) == IF a # NoEl THEN a ELSE b

\* Math.ceil(a / b) for a >= 0, b > 0.
CeilDiv(a, b) == (a + b - 1) \div b

\* a[i] ?? 0 with a 0-based index.
At(a, i) == IF i >= 0 /\ i < Len(a) THEN a[i + 1] ELSE 0

----------------------------------------------------------------------------
(* The computed values, as functions of what they read. *)

\* Mutant: the remainder of the division taken for the number of lines.
estimateHeightModulo(textLength, width0) ==
    LET width == OrElse(width0, fallbackWidth)
        charsPerLine == Max(minCharsPerLine, width \div charWidthPx)
        lines == Max(1, textLength % charsPerLine)
    IN  lines * lineHeightPx + paragraphGap

\* Mutant: the number of lines rounded down.
estimateHeightFloorLines(textLength, width0) ==
    LET width == OrElse(width0, fallbackWidth)
        charsPerLine == Max(minCharsPerLine, width \div charWidthPx)
        lines == Max(1, textLength \div charsPerLine)
    IN  lines * lineHeightPx + paragraphGap

estimateHeightAt(textLength, width0) ==
    LET width == OrElse(width0, fallbackWidth)
        charsPerLine == Max(minCharsPerLine, width \div charWidthPx)
        lines == Max(1, CeilDiv(textLength, charsPerLine))
    IN  lines * lineHeightPx + paragraphGap

heightsOf(ps, width) == [k \in 1..Len(ps) |-> estimateHeightAt(ps[k], width)]

\* Mutant: the width threshold taken as exclusive.
useVirtualizationExclusive(ps, width) ==
    Len(ps) >= MIN_VIRTUAL_PARAGRAPHS /\ width > MIN_VIRTUAL_WIDTH

useVirtualizationOf(ps, width) ==
    Len(ps) >= MIN_VIRTUAL_PARAGRAPHS /\ width >= MIN_VIRTUAL_WIDTH

\* Mutant: acc is advanced before it is stored.
RECURSIVE offsetsLoopInclusive(_, _, _, _)
offsetsLoopInclusive(hs, lo, hi, acc) ==
    IF lo >= hi
    THEN <<>>
    ELSE IF hi = lo + 1
    THEN <<acc + At(hs, lo)>>
    ELSE LET mid == (lo + hi) \div 2
             left == offsetsLoopInclusive(hs, lo, mid, acc)
         IN  left \o offsetsLoopInclusive(hs, mid, hi, left[Len(left)])

\* The loop of offsets: result[i] = acc; acc += heights[i] ?? 0.  The scan
\* of indices lo..hi-1 starts with acc, the offset of paragraph lo; it is
\* evaluated in two halves, the second starting with the acc the first one
\* ends with, so that the evaluation stays shallow for 160 paragraphs.
RECURSIVE offsetsLoop(_, _, _, _)
offsetsLoop(hs, lo, hi, acc) ==
    IF lo >= hi
    THEN <<>>
    ELSE IF hi = lo + 1
    THEN <<acc>>
    ELSE LET mid == (lo + hi) \div 2
             left == offsetsLoop(hs, lo, mid, acc)
             accMid == left[Len(left)] + At(hs, mid - 1)
         IN  left \o offsetsLoop(hs, mid, hi, accMid)

\* Mutant: the table is built in fixed mode too.
offsetsAlwaysBuilt(ps, width) ==
    offsetsLoop(heightsOf(ps, width), 0, Len(ps), 0)

offsetsOf(ps, width) ==
    IF ~useVirtualizationOf(ps, width)
    THEN <<>>
    ELSE offsetsLoop(heightsOf(ps, width), 0, Len(ps), 0)

\* Mutant: the height of the last paragraph is left out.
totalHeightWithoutLast(ps, width) ==
    IF ~useVirtualizationOf(ps, width)
    THEN 0
    ELSE LET offs == offsetsOf(ps, width)
             last == Len(offs) - 1
         IN  IF last < 0
             THEN 0
             ELSE At(offs, last)

totalHeightOf(ps, width) ==
    IF ~useVirtualizationOf(ps, width)
    THEN 0
    ELSE LET offs == offsetsOf(ps, width)
             last == Len(offs) - 1
         IN  IF last < 0
             THEN 0
             ELSE At(offs, last) + At(heightsOf(ps, width), last)

\* Mutant: the comparison of the binary search taken as exclusive.
RECURSIVE findLoopExclusive(_, _, _, _, _)
findLoopExclusive(offs, scroll, lo, hi, ans) ==
    IF lo <= hi
    THEN LET mid == (lo + hi) \div 2
             val == At(offs, mid)
         IN  IF val < scroll
             THEN findLoopExclusive(offs, scroll, mid + 1, hi, mid)
             ELSE findLoopExclusive(offs, scroll, lo, mid - 1, ans)
    ELSE ans

\* The binary search of findStartIndex.
RECURSIVE findLoop(_, _, _, _, _)
findLoop(offs, scroll, lo, hi, ans) ==
    IF lo <= hi
    THEN LET mid == (lo + hi) \div 2
             val == At(offs, mid)
         IN  IF val <= scroll
             THEN findLoop(offs, scroll, mid + 1, hi, mid)
             ELSE findLoop(offs, scroll, lo, mid - 1, ans)
    ELSE ans

\* Mutant: ans starts at the last index.
findStartIndexFromLast(offs, scroll) ==
    findLoop(offs, scroll, 0, Len(offs) - 1, Len(offs) - 1)

findStartIndexIn(offs, scroll) == findLoop(offs, scroll, 0, Len(offs) - 1, 0)

\* Mutant: the walk ignores the pixel limit.
walkEndUnlimited(offs, limit, end) == Max(end, Len(offs))

\* The while loop of visibleRange.
RECURSIVE walkEnd(_, _, _)
walkEnd(offs, limit, end) ==
    IF end < Len(offs) /\ At(offs, end) < limit
    THEN walkEnd(offs, limit, end + 1)
    ELSE end

\* Mutant: no overscan before the first visible paragraph.
visibleRangeNoLeadingOverscan(ps, width, scroll, height) ==
    IF ~useVirtualizationOf(ps, width)
    THEN [start |-> 0, end |-> Len(ps)]
    ELSE LET offs == offsetsOf(ps, width)
             start == Max(0, findStartIndexIn(offs, scroll))
             maxScroll == scroll + height
             end == walkEnd(offs, maxScroll + overscan * lineHeightPx, start)
         IN  [start |-> start, end |-> Min(Len(offs), end + overscan)]

\* Mutant: end is not clamped to the length of the table.
visibleRangeUnclamped(ps, width, scroll, height) ==
    IF ~useVirtualizationOf(ps, width)
    THEN [start |-> 0, end |-> Len(ps)]
    ELSE LET offs == offsetsOf(ps, width)
             start == Max(0, findStartIndexIn(offs, scroll) - overscan)
             maxScroll == scroll + height
             end == walkEnd(offs, maxScroll + overscan * lineHeightPx, start)
         IN  [start |-> start, end |-> end + overscan]

\* Mutant: the fixed branch ends one past the length.
visibleRangeFixedOffByOne(ps, width, scroll, height) ==
    IF ~useVirtualizationOf(ps, width)
    THEN [start |-> 0, end |-> Len(ps) + 1]
    ELSE LET offs == offsetsOf(ps, width)
             start == Max(0, findStartIndexIn(offs, scroll) - overscan)
             maxScroll == scroll + height
             end == walkEnd(offs, maxScroll + overscan * lineHeightPx, start)
         IN  [start |-> start, end |-> Min(Len(offs), end + overscan)]

\* Mutant: start is not clamped to 0.
visibleRangeNegativeStart(ps, width, scroll, height) ==
    IF ~useVirtualizationOf(ps, width)
    THEN [start |-> 0, end |-> Len(ps)]
    ELSE LET offs == offsetsOf(ps, width)
             start == findStartIndexIn(offs, scroll) - overscan
             maxScroll == scroll + height
             end == walkEnd(offs, maxScroll + overscan * lineHeightPx, start)
         IN  [start |-> start, end |-> Min(Len(offs), end + overscan)]

\* Mutant: end is clamped to the last index.
visibleRangeEndAtLast(ps, width, scroll, height) ==
    IF ~useVirtualizationOf(ps, width)
    THEN [start |-> 0, end |-> Len(ps)]
    ELSE LET offs == offsetsOf(ps, width)
             start == Max(0, findStartIndexIn(offs, scroll) - overscan)
             maxScroll == scroll + height
             end == walkEnd(offs, maxScroll + overscan * lineHeightPx, start)
         IN  [start |-> start, end |-> Min(Len(offs) - 1, end + overscan)]

\* Mutant: the overscan after the window counted in pixels.
visibleRangePixelOverscan(ps, width, scroll, height) ==
    IF ~useVirtualizationOf(ps, width)
    THEN [start |-> 0, end |-> Len(ps)]
    ELSE LET offs == offsetsOf(ps, width)
             start == Max(0, findStartIndexIn(offs, scroll) - overscan)
             maxScroll == scroll + height
             end == walkEnd(offs, maxScroll + overscan * lineHeightPx, start)
         IN  [start |-> start,
              end |-> Min(Len(offs), end + overscan * lineHeightPx)]

visibleRangeOf(ps, width, scroll, height) ==
    IF ~useVirtualizationOf(ps, width)
    THEN [start |-> 0, end |-> Len(ps)]
    ELSE LET offs == offsetsOf(ps, width)
             start == Max(0, findStartIndexIn(offs, scroll) - overscan)
             maxScroll == scroll + height
             end == walkEnd(offs, maxScroll + overscan * lineHeightPx, start)
         IN  [start |-> start, end |-> Min(Len(offs), end + overscan)]

----------------------------------------------------------------------------
(* The computed values in the current state. *)

heights == heightsOf(paragraphs, containerWidth)
useVirtualization == useVirtualizationOf(paragraphs, containerWidth)
offsets == offsetsOf(paragraphs, containerWidth)
totalHeight == totalHeightOf(paragraphs, containerWidth)
findStartIndex(scroll) == findStartIndexIn(offsets, scroll)
visibleRange ==
    visibleRangeOf(paragraphs, containerWidth, scrollTop, viewportHeight)
visibleStart == visibleRange.start
visibleItems == SubSeq(paragraphs, visibleRange.start + 1, visibleRange.end)
topPadding == At(offsets, visibleRange.start)

\* props.scrollElement ?? containerRef.value
readElement == Coalesce(scrollElement, containerRef)

----------------------------------------------------------------------------
(* The browser's animation frames.  A handle is compared only with the     *)
(* handles still pending and with rafId, so a request returns the smallest *)
(* positive handle that is neither; the browser never returns a handle     *)
(* that is pending or that it returned for the previous request.           *)

freshHandle(pending, last) ==
    CHOOSE h \in 1..(Cardinality(pending) + 2) :
        /\ h \notin pending
        /\ h # last
        /\ \A g \in 1..(h - 1) : g \in pending \/ g = last

cancelAnimationFrame(pending, id) == pending \ {id}

----------------------------------------------------------------------------
(* The game store: its state, the values the backend returns and the      *)
(* strings it handles.  A string is the sequence of its parts.            *)

\* null, in a field of each type.
NoScript == [id |-> "null", player_name |-> <<>>]
NoGame == "null"
NoDiagnostics == <<"null">>
NoPlot == [id |-> "null", current_scene |-> FALSE,
           available_options |-> "null",
           last_generation_diagnostics |-> NoDiagnostics]
NoMessage == <<"null">>
NoError == [message |-> NoMessage]

\* playerName is optional.
Absent == <<"undefined">>
PlayerNames == {Absent, <<" ">>, <<" ", "L", " ", "M", " ">>}

\* '无名弟子'
DefaultPlayerName == <<"wu ming di zi">>

\* String.prototype.trim on a sequence of characters.
RECURSIVE TrimStart(_)
TrimStart(s) == IF s # <<>> /\ Head(s) = " " THEN TrimStart(Tail(s)) ELSE s

RECURSIVE TrimEnd(_)
TrimEnd(s) ==
    IF s # <<>> /\ s[Len(s)] = " "
    THEN TrimEnd(SubSeq(s, 1, Len(s) - 1))
    ELSE s

Trim(s) == TrimEnd(TrimStart(s))

\* Mutant: the name is taken as supplied.
playerNameUntrimmed(playerName) ==
    IF playerName = Absent \/ playerName = <<>>
    THEN DefaultPlayerName
    ELSE playerName

\* playerName?.trim() || '无名弟子'
playerNameOf(playerName) ==
    LET trimmedName == IF playerName = Absent THEN Absent ELSE Trim(playerName)
    IN  IF trimmedName = Absent \/ trimmedName = <<>>
        THEN DefaultPlayerName
        ELSE trimmedName

\* What the backend returns.
Scripts == {[id |-> "s1", player_name |-> <<>>]}
GameStates == {"g1", "g2"}
OptionLists == {"o1"}
PlotStates ==
    {[id |-> "p1", current_scene |-> TRUE, available_options |-> "o0",
      last_generation_diagnostics |-> NoDiagnostics],
     [id |-> "p2", current_scene |-> TRUE, available_options |-> "o0",
      last_generation_diagnostics |-> <<"diagnostics">>],
     [id |-> "p3", current_scene |-> FALSE, available_options |-> "null",
      last_generation_diagnostics |-> NoDiagnostics]}

\* '剧情推进超时' and the messages that start with it.
AdvanceTimeout == "advance timed out"
AdvanceTimeoutMessage == <<AdvanceTimeout, ", retry later">>
AdvanceTimeoutAdvice ==
    <<AdvanceTimeout, ", retry later", ". reconnect or adjust the LLM">>

\* What a backend call rejects with: an error of the backend, or the
\* timeout of invokeWithTimeout with the message the call passes.
Errors == {[message |-> <<"backend failed">>],
           [message |-> AdvanceTimeoutMessage]}

\* error instanceof Error ? error.message : String(error)
messageOf(e) == e.message

\* message.includes(part)
Includes(message, part) == \E k \in 1..Len(message) : message[k] = part

\* `操作失败: ${message}`
actionFailed(message) == <<"action failed: ">> \o message

\* The store's actions that set isLoading.
LoadingActions == {"initializeGame", "executePlayerAction", "saveGame",
                   "loadGame", "initializeRandomGame"}

\* The calls of store actions that can be under way at once.
Calls == {1, 2}

\* A call slot not in use.
IdleCall == [kind |-> "idle", pc |-> "done", settled |-> "none",
             thrown |-> NoError, playerName |-> Absent, script |-> NoScript,
             gameState |-> NoGame, plotState |-> NoPlot, caught |-> NoError,
             alone |-> TRUE]

\* state: () => ({ ... }), and no call under way.
StoreInitial ==
    /\ currentScript = NoScript
    /\ gameState = NoGame
    /\ plotState = NoPlot
    /\ isLoading = FALSE
    /\ error = NoMessage
    /\ calls = [c \in Calls |-> IdleCall]

----------------------------------------------------------------------------
(* The initial state: setup has run, the component is not mounted yet. *)

Init ==
    /\ StoreInitial
    /\ paragraphs \in {TestParagraphs(n) : n \in InitCounts}
    /\ scrollElement \in {NoEl, "ext"}
    /\ containerRef = NoEl
    /\ phase = "setup"
    /\ \E se \in Sizes("ext"), sr \in Sizes("root") :
          /\ clientWidth = [e \in Elements |-> IF e = "ext" THEN se[1] ELSE sr[1]]
          /\ clientHeight = [e \in Elements |-> IF e = "ext" THEN se[2] ELSE sr[2]]
    /\ \E xe \in Scrolls("ext"), xr \in Scrolls("root") :
          elScrollTop = [e \in Elements |-> IF e = "ext" THEN xe ELSE xr]
    /\ viewportHeight = 0
    /\ scrollTop = 0
    /\ containerWidth = 0
    /\ rafId = 0
    /\ pendingFrames = {}
    /\ listeners = {}
    /\ observed = {}

----------------------------------------------------------------------------
(* The component's functions, as the parts of an action they are. *)

\* Mutant: the width is not stored.
updateViewportHeightOnly(el, cw, ch) ==
    IF el = NoEl
    THEN UNCHANGED <<viewportHeight, containerWidth>>
    ELSE /\ viewportHeight' = OrElse(ch[el], 0)
         /\ UNCHANGED containerWidth

\* updateViewport(), reading element el; cw and ch are the DOM's clientWidth
\* and clientHeight at the time of the call.
updateViewport(el, cw, ch) ==
    IF el = NoEl
    THEN UNCHANGED <<viewportHeight, containerWidth>>
    ELSE /\ viewportHeight' = OrElse(ch[el], 0)
         /\ containerWidth' = OrElse(cw[el], 0)

\* Mutant: the frame rafId names is not cancelled.
onScrollNoCancel ==
    LET id == freshHandle(pendingFrames, rafId)
    IN  /\ rafId' = id
        /\ pendingFrames' = pendingFrames \cup {id}

\* Mutant: no frame is requested while one is pending.
onScrollKeepsPending ==
    IF pendingFrames # {}
    THEN UNCHANGED <<rafId, pendingFrames>>
    ELSE LET id == freshHandle(pendingFrames, rafId)
         IN  /\ rafId' = id
             /\ pendingFrames' = {id}

\* onScroll(): cancel the frame rafId names, request a new one.
onScroll ==
    LET kept == IF rafId # 0
                THEN cancelAnimationFrame(pendingFrames, rafId)
                ELSE pendingFrames
        id == freshHandle(pendingFrames, rafId)
    IN  /\ rafId' = id
        /\ pendingFrames' = kept \cup {id}

\* The callback onScroll hands to requestAnimationFrame.
frameCallback ==
    LET el == readElement
    IN  IF el = NoEl
        THEN UNCHANGED scrollTop
        ELSE scrollTop' = elScrollTop[el]

\* Mutant: growth takes the list back to the top.
onParagraphCountResets == scrollTop' = 0

\* Mutant: growth leaves the stored scroll offset alone.
onParagraphCountKeeps == UNCHANGED scrollTop

\* The callback of watch(() => props.paragraphs.length, ...).
onParagraphCount ==
    LET el == readElement
    IN  IF el = NoEl
        THEN UNCHANGED scrollTop
        ELSE scrollTop' = elScrollTop[el]

\* The element onBeforeUnmount removes the scroll listener from.
unmountElement == readElement

----------------------------------------------------------------------------
(* The actions. *)

\* The component is mounted: the template ref is set, then onMounted runs.
\* observe() delivers its first notification to updateViewport, which reads
\* what the call before it read.
Mount ==
    /\ phase = "setup"
    /\ phase' = "mounted"
    /\ containerRef' = "root"
    /\ LET el == Coalesce(scrollElement, "root")
       IN  IF el = NoEl
           THEN UNCHANGED <<viewportHeight, containerWidth, listeners, observed>>
           ELSE /\ updateViewport(el, clientWidth, clientHeight)
                /\ listeners' = listeners \cup {el}
                /\ observed' = {el}
    /\ UNCHANGED <<paragraphs, scrollElement, dom, scrollTop, rafId,
                   pendingFrames>>

\* The browser lays element e out at a new size; when the component's
\* ResizeObserver observes e, its callback updateViewport runs.
Resize(e, size) ==
    /\ phase = "mounted"
    /\ size # <<clientWidth[e], clientHeight[e]>>
    /\ clientWidth' = [clientWidth EXCEPT ![e] = size[1]]
    /\ clientHeight' = [clientHeight EXCEPT ![e] = size[2]]
    /\ IF e \in observed
       THEN updateViewport(readElement, clientWidth', clientHeight')
       ELSE UNCHANGED <<viewportHeight, containerWidth>>
    /\ UNCHANGED <<paragraphs, scrollElement, containerRef, phase,
                   elScrollTop, scrollTop, rafId, pendingFrames, listeners,
                   observed>>

\* Element e is scrolled to position pos and its scroll event is
\* dispatched; onScroll runs when it is a listener of e.  The root is
\* detached once the component is unmounted and scrolls no more.
Scroll(e, pos) ==
    /\ \/ phase = "mounted"
       \/ phase = "unmounted" /\ e # "root" /\ e \in listeners
    /\ pos # elScrollTop[e]
    /\ elScrollTop' = [elScrollTop EXCEPT ![e] = pos]
    /\ IF e \in listeners
       THEN onScroll
       ELSE UNCHANGED <<rafId, pendingFrames>>
    /\ UNCHANGED <<paragraphs, scrollElement, containerRef, phase,
                   clientWidth, clientHeight, refs, listeners, observed>>

\* Mutant: the frame callback reads the size of the container too.
FrameUpdatesViewport(id) ==
    /\ id \in pendingFrames
    /\ pendingFrames' = pendingFrames \ {id}
    /\ frameCallback
    /\ updateViewport(readElement, clientWidth, clientHeight)
    /\ UNCHANGED <<paragraphs, scrollElement, containerRef, phase, dom,
                   rafId, listeners, observed>>

\* The browser runs the pending animation frame callback id.
Frame(id) ==
    /\ id \in pendingFrames
    /\ pendingFrames' = pendingFrames \ {id}
    /\ frameCallback
    /\ UNCHANGED <<paragraphs, scrollElement, containerRef, phase, dom,
                   viewportHeight, containerWidth, rafId, listeners, observed>>

\* The parent appends a paragraph; the watcher of the length runs.
GrowthBase == CHOOSE n \in InitCounts :
    /\ n <= Len(paragraphs)
    /\ \A m \in InitCounts : m <= Len(paragraphs) => m <= n

\* Mutant: the watcher scrolls the container to follow the new paragraph.
AppendParagraphFollows(textLength) ==
    /\ phase = "mounted"
    /\ Len(paragraphs) - GrowthBase < MaxAppends
    /\ paragraphs' = Append(paragraphs, textLength)
    /\ elScrollTop' = [elScrollTop EXCEPT ![readElement] = 50000]
    /\ scrollTop' = 50000
    /\ UNCHANGED <<scrollElement, containerRef, phase, clientWidth,
                   clientHeight, viewportHeight, containerWidth, rafId,
                   pendingFrames, listeners, observed>>

AppendParagraph(textLength) ==
    /\ phase = "mounted"
    /\ Len(paragraphs) - GrowthBase < MaxAppends
    /\ paragraphs' = Append(paragraphs, textLength)
    /\ onParagraphCount
    /\ UNCHANGED <<scrollElement, containerRef, phase, dom, viewportHeight,
                   containerWidth, rafId, pendingFrames, listeners, observed>>

\* The parent passes another scrollElement; nothing watches the prop.
SetScrollElement(el) ==
    /\ phase = "mounted"
    /\ el # scrollElement
    /\ scrollElement' = el
    /\ UNCHANGED <<paragraphs, containerRef, phase, dom, refs, rafId,
                   pendingFrames, listeners, observed>>

\* onBeforeUnmount runs, then the template ref is reset.
Unmount ==
    /\ phase = "mounted"
    /\ phase' = "unmounted"
    /\ listeners' = IF unmountElement # NoEl
                    THEN listeners \ {unmountElement}
                    ELSE listeners
    /\ observed' = {}
    /\ pendingFrames' = IF rafId # 0
                        THEN cancelAnimationFrame(pendingFrames, rafId)
                        ELSE pendingFrames
    /\ containerRef' = NoEl
    /\ UNCHANGED <<paragraphs, scrollElement, dom, refs, rafId>>

\* The steps of the list; the store is another object and stays as it is.
Next ==
    \/ Mount /\ UNCHANGED storeVars
    \/ \E e \in Elements : \E size \in Sizes(e) :
          Resize(e, size) /\ UNCHANGED storeVars
    \/ \E e \in Elements : \E pos \in Scrolls(e) :
          Scroll(e, pos) /\ UNCHANGED storeVars
    \/ \E id \in pendingFrames : Frame(id) /\ UNCHANGED storeVars
    \/ \E textLength \in AppendLengths :
          AppendParagraph(textLength) /\ UNCHANGED storeVars
    \/ \E el \in {NoEl, "ext"} : SetScrollElement(el) /\ UNCHANGED storeVars
    \/ Unmount /\ UNCHANGED storeVars

Spec == Init /\ [][Next]_vars

\* The browser runs every requested animation frame callback.
FairSpec == Spec /\ WF_vars(\E id \in pendingFrames : Frame(id))

----------------------------------------------------------------------------
(* The actions of the game store.  An action runs from its call to its    *)
(* first await in one step; each await that settles is a step of its own.  *)

\* Call c has started and has neither resolved nor rejected.  A slot whose
\* call has settled is idle; it shows how the call settled until it is
\* taken again.
InFlight(c) == calls[c].kind # "idle"

\* A call takes the first slot that is idle.
FirstIdle(c) ==
    /\ calls[c].kind = "idle"
    /\ \A d \in Calls : d < c => calls[d].kind # "idle"

\* Slot c takes the call record rec; the calls under way are no longer alone.
begun(c, rec) ==
    [d \in Calls |->
        IF d = c
        THEN [rec EXCEPT !.alone = \A o \in Calls \ {c} : ~InFlight(o)]
        ELSE IF InFlight(d)
        THEN [calls[d] EXCEPT !.alone = FALSE]
        ELSE calls[d]]

\* Call c goes on to wait at pc.
waitsAt(c, pc) == calls' = [calls EXCEPT ![c].pc = pc]

\* Call c resolves; plot is the plot state it was returned last.
resolvedWith(c, plot) ==
    [calls EXCEPT ![c] = [IdleCall EXCEPT !.settled = "resolved",
                                          !.plotState = plot,
                                          !.alone = calls[c].alone]]

resolved(c) == calls' = resolvedWith(c, NoPlot)

\* Call c rejects with e.
rejected(c, e) ==
    [calls EXCEPT ![c] = [IdleCall EXCEPT !.settled = "rejected",
                                          !.thrown = e,
                                          !.alone = calls[c].alone]]

\* Mutant: the message of the error is not stored.
failedWithoutMessage(c, e) ==
    /\ UNCHANGED error
    /\ isLoading' = FALSE
    /\ calls' = rejected(c, e)

\* catch (error) { this.error = ...; throw error } finally { ... }
failed(c, e) ==
    /\ error' = messageOf(e)
    /\ isLoading' = FALSE
    /\ calls' = rejected(c, e)

\* this.isLoading = true; this.error = null
loadingStarts ==
    /\ isLoading' = TRUE
    /\ error' = NoMessage

initializeGame(c, script, playerName) ==
    /\ FirstIdle(c)
    /\ loadingStarts
    /\ calls' = begun(c, [IdleCall EXCEPT
                  !.kind = "initializeGame",
                  !.pc = "initialize_game",
                  !.playerName = playerName,
                  !.script = [script EXCEPT
                                !.player_name = playerNameOf(playerName)]])
    /\ UNCHANGED <<currentScript, gameState, plotState>>

initializeGameResumes(c) ==
    /\ calls[c].kind = "initializeGame"
    /\ \/ /\ calls[c].pc = "initialize_game"
          /\ \E g \in GameStates :
                /\ currentScript' = calls[c].script
                /\ gameState' = g
                /\ calls' = [calls EXCEPT ![c].pc = "initialize_plot",
                                          ![c].gameState = g]
          /\ UNCHANGED <<plotState, isLoading, error>>
       \/ /\ calls[c].pc = "initialize_plot"
          /\ \E p \in PlotStates :
                /\ plotState' = p
                /\ calls' = resolvedWith(c, p)
          /\ isLoading' = FALSE
          /\ UNCHANGED <<currentScript, gameState, error>>
       \/ /\ \E e \in Errors : failed(c, e)
          /\ UNCHANGED <<currentScript, gameState, plotState>>

executePlayerAction(c) ==
    /\ FirstIdle(c)
    /\ loadingStarts
    /\ calls' = begun(c, [IdleCall EXCEPT
                  !.kind = "executePlayerAction",
                  !.pc = "execute_player_action"])
    /\ UNCHANGED <<currentScript, gameState, plotState>>

executePlayerActionResumes(c) ==
    /\ calls[c].kind = "executePlayerAction"
    /\ \/ /\ calls[c].pc = "execute_player_action"
          /\ waitsAt(c, "get_game_state")
          /\ UNCHANGED <<currentScript, gameState, plotState, isLoading,
                         error>>
       \/ /\ calls[c].pc = "get_game_state"
          /\ \E g \in GameStates :
                /\ gameState' = g
                /\ calls' = [calls EXCEPT ![c].pc = "get_plot_state",
                                          ![c].gameState = g]
          /\ UNCHANGED <<currentScript, plotState, isLoading, error>>
       \/ /\ calls[c].pc = "get_plot_state"
          /\ \E p \in PlotStates :
                /\ plotState' = p
                /\ error' = IF p.last_generation_diagnostics # NoDiagnostics
                            THEN p.last_generation_diagnostics
                            ELSE error
                /\ calls' = resolvedWith(c, p)
          /\ isLoading' = FALSE
          /\ UNCHANGED <<currentScript, gameState>>
       \/ /\ calls[c].pc \in {"execute_player_action", "get_game_state",
                              "get_plot_state"}
          /\ \E e \in Errors :
                IF Includes(messageOf(e), AdvanceTimeout)
                THEN /\ calls' = [calls EXCEPT ![c].pc = "recover",
                                               ![c].caught = e]
                     /\ UNCHANGED <<isLoading, error>>
                ELSE /\ error' = actionFailed(messageOf(e))
                     /\ isLoading' = FALSE
                     /\ calls' = rejected(c, e)
          /\ UNCHANGED <<currentScript, gameState, plotState>>
       \/ /\ calls[c].pc = "recover"
          /\ \E p \in PlotStates :
                /\ plotState' = p
                /\ error' = IF p.last_generation_diagnostics # NoDiagnostics
                            THEN p.last_generation_diagnostics
                            ELSE AdvanceTimeoutMessage
          /\ isLoading' = FALSE
          /\ calls' = rejected(c, calls[c].caught)
          /\ UNCHANGED <<currentScript, gameState>>
       \/ /\ calls[c].pc = "recover"
          /\ error' = AdvanceTimeoutAdvice
          /\ isLoading' = FALSE
          /\ calls' = rejected(c, calls[c].caught)
          /\ UNCHANGED <<currentScript, gameState, plotState>>

saveGame(c) ==
    /\ FirstIdle(c)
    /\ loadingStarts
    /\ calls' = begun(c, [IdleCall EXCEPT !.kind = "saveGame",
                                          !.pc = "save_game"])
    /\ UNCHANGED <<currentScript, gameState, plotState>>

saveGameResumes(c) ==
    /\ calls[c].kind = "saveGame"
    /\ \/ /\ resolved(c)
          /\ isLoading' = FALSE
          /\ UNCHANGED error
       \/ \E e \in Errors : failed(c, e)
    /\ UNCHANGED <<currentScript, gameState, plotState>>

loadGame(c) ==
    /\ FirstIdle(c)
    /\ loadingStarts
    /\ calls' = begun(c, [IdleCall EXCEPT !.kind = "loadGame",
                                          !.pc = "load_game"])
    /\ UNCHANGED <<currentScript, gameState, plotState>>

loadGameResumes(c) ==
    /\ calls[c].kind = "loadGame"
    /\ \/ /\ calls[c].pc = "load_game"
          /\ \E g \in GameStates :
                /\ gameState' = g
                /\ calls' = [calls EXCEPT ![c].pc = "get_plot_state",
                                          ![c].gameState = g]
          /\ UNCHANGED <<plotState, isLoading, error>>
       \/ /\ calls[c].pc = "get_plot_state"
          /\ \E p \in PlotStates :
                /\ plotState' = p
                /\ calls' = resolvedWith(c, p)
          /\ isLoading' = FALSE
          /\ UNCHANGED <<gameState, error>>
       \/ /\ \E e \in Errors : failed(c, e)
          /\ UNCHANGED <<gameState, plotState>>
    /\ UNCHANGED currentScript

getPlayerOptions(c) ==
    /\ FirstIdle(c)
    /\ calls' = begun(c, [IdleCall EXCEPT !.kind = "getPlayerOptions",
                                          !.pc = "get_player_options"])
    /\ UNCHANGED <<currentScript, gameState, plotState, isLoading, error>>

getPlayerOptionsResumes(c) ==
    /\ calls[c].kind = "getPlayerOptions"
    /\ \/ /\ \E options \in OptionLists :
                plotState' =
                    IF plotState # NoPlot /\ plotState.current_scene
                    THEN [plotState EXCEPT !.available_options = options]
                    ELSE plotState
          /\ resolved(c)
          /\ UNCHANGED error
       \/ /\ \E e \in Errors :
                /\ error' = messageOf(e)
                /\ calls' = rejected(c, e)
          /\ UNCHANGED plotState
    /\ UNCHANGED <<currentScript, gameState, isLoading>>

initializeRandomGame(c, playerName) ==
    /\ FirstIdle(c)
    /\ loadingStarts
    /\ calls' = begun(c, [IdleCall EXCEPT
                  !.kind = "initializeRandomGame",
                  !.pc = "generate_random_script",
                  !.playerName = playerName])
    /\ UNCHANGED <<currentScript, gameState, plotState>>

initializeRandomGameResumes(c) ==
    /\ calls[c].kind = "initializeRandomGame"
    /\ \/ /\ calls[c].pc = "generate_random_script"
          /\ \E script \in Scripts :
                calls' = [calls EXCEPT
                    ![c].pc = "initialize_game",
                    ![c].script =
                        [script EXCEPT !.player_name =
                            playerNameOf(calls[c].playerName)]]
          /\ UNCHANGED <<currentScript, gameState, plotState, isLoading,
                         error>>
       \/ /\ calls[c].pc = "initialize_game"
          /\ \E g \in GameStates :
                /\ currentScript' = calls[c].script
                /\ gameState' = g
                /\ calls' = [calls EXCEPT ![c].pc = "initialize_plot",
                                          ![c].gameState = g]
          /\ UNCHANGED <<plotState, isLoading, error>>
       \/ /\ calls[c].pc = "initialize_plot"
          /\ \E p \in PlotStates :
                /\ plotState' = p
                /\ calls' = resolvedWith(c, p)
          /\ isLoading' = FALSE
          /\ UNCHANGED <<currentScript, gameState, error>>
       \/ /\ \E e \in Errors : failed(c, e)
          /\ UNCHANGED <<currentScript, gameState, plotState>>

listSaveSlots(c) ==
    /\ FirstIdle(c)
    /\ calls' = begun(c, [IdleCall EXCEPT !.kind = "listSaveSlots",
                                          !.pc = "list_save_slots"])
    /\ UNCHANGED <<currentScript, gameState, plotState, isLoading, error>>

listSaveSlotsResumes(c) ==
    /\ calls[c].kind = "listSaveSlots"
    /\ \/ /\ resolved(c)
          /\ UNCHANGED error
       \/ \E e \in Errors :
             /\ error' = messageOf(e)
             /\ calls' = rejected(c, e)
    /\ UNCHANGED <<currentScript, gameState, plotState, isLoading>>

\* A synchronous action runs: the calls under way are no longer alone.
disturbed ==
    [d \in Calls |->
        IF InFlight(d) THEN [calls[d] EXCEPT !.alone = FALSE] ELSE calls[d]]

clearError ==
    /\ error # NoMessage
    /\ error' = NoMessage
    /\ calls' = disturbed
    /\ UNCHANGED <<currentScript, gameState, plotState, isLoading>>

resetGame ==
    /\ <<currentScript, gameState, plotState, error>>
          # <<NoScript, NoGame, NoPlot, NoMessage>>
    /\ currentScript' = NoScript
    /\ gameState' = NoGame
    /\ plotState' = NoPlot
    /\ error' = NoMessage
    /\ calls' = disturbed
    /\ UNCHANGED isLoading

StoreNext ==
    \/ \E c \in Calls, script \in Scripts, playerName \in PlayerNames :
          initializeGame(c, script, playerName) /\ UNCHANGED vars
    \/ \E c \in Calls : initializeGameResumes(c) /\ UNCHANGED vars
    \/ \E c \in Calls : executePlayerAction(c) /\ UNCHANGED vars
    \/ \E c \in Calls : executePlayerActionResumes(c) /\ UNCHANGED vars
    \/ \E c \in Calls : saveGame(c) /\ UNCHANGED vars
    \/ \E c \in Calls : saveGameResumes(c) /\ UNCHANGED vars
    \/ \E c \in Calls : loadGame(c) /\ UNCHANGED vars
    \/ \E c \in Calls : loadGameResumes(c) /\ UNCHANGED vars
    \/ \E c \in Calls : getPlayerOptions(c) /\ UNCHANGED vars
    \/ \E c \in Calls : getPlayerOptionsResumes(c) /\ UNCHANGED vars
    \/ \E c \in Calls, playerName \in PlayerNames :
          initializeRandomGame(c, playerName) /\ UNCHANGED vars
    \/ \E c \in Calls : initializeRandomGameResumes(c) /\ UNCHANGED vars
    \/ \E c \in Calls : listSaveSlots(c) /\ UNCHANGED vars
    \/ \E c \in Calls : listSaveSlotsResumes(c) /\ UNCHANGED vars
    \/ clearError /\ UNCHANGED vars
    \/ resetGame /\ UNCHANGED vars

\* The store with no list on the page: the list's variables keep the
\* values of a list that is set up with no paragraphs and never mounted.
ListSetUp ==
    /\ paragraphs = <<>>
    /\ scrollElement = NoEl
    /\ containerRef = NoEl
    /\ phase = "setup"
    /\ clientWidth = [e \in Elements |-> 0]
    /\ clientHeight = [e \in Elements |-> 0]
    /\ elScrollTop = [e \in Elements |-> 0]
    /\ viewportHeight = 0
    /\ scrollTop = 0
    /\ containerWidth = 0
    /\ rafId = 0
    /\ pendingFrames = {}
    /\ listeners = {}
    /\ observed = {}

StoreInit == ListSetUp /\ StoreInitial

StoreSpec == StoreInit /\ [][StoreNext]_storeVars

----------------------------------------------------------------------------
(* What the template renders. *)

\* v-if="!useVirtualization" / v-else
renderMode == IF ~useVirtualization THEN "fixed" ELSE "windowed"
renderedCount == Len(visibleItems)

----------------------------------------------------------------------------
(* Vocabulary of the properties. *)

Indices == 0..(Len(paragraphs) - 1)

\* Paragraph i occupies [offs[i], offs[i] + hs[i]], both ends included, and
\* the viewport [scrollTop, scrollTop + viewportHeight].
TouchesViewport(offs, hs, i) ==
    /\ At(offs, i) <= scrollTop + viewportHeight
    /\ At(offs, i) + At(hs, i) >= scrollTop

\* Paragraph i occupies [offs[i], offs[i] + hs[i]): its lower end belongs
\* to the next paragraph.
InViewport(offs, hs, i) ==
    /\ At(offs, i) <= scrollTop + viewportHeight
    /\ At(offs, i) + At(hs, i) > scrollTop

\* The window range holds the paragraphs of V and overscan more paragraphs,
\* or all there are, on each side of them.
Contains(range, V) ==
    \A i \in V :
        /\ range.start <= i
        /\ i < range.end
        /\ range.start <= Max(0, i - overscan)
        /\ range.end >= Min(Len(paragraphs), i + 1 + overscan)

Windowed == renderMode = "windowed"

\* onScroll ran in this step: a scroll event reached a listener.
ScrollHandled == \E e \in listeners : elScrollTop'[e] # elScrollTop[e]

----------------------------------------------------------------------------
(* C1  Window containment. *)

\* C1 as stated: in windowed mode with scrollTop >= 0 the window contains
\* every paragraph whose closed extent [offsets[i], offsets[i] + heights[i]]
\* meets the viewport, and 6 more paragraphs (or all there are) before the
\* first and after the last of them.
C1_ClosedExtentContained ==
    (Windowed /\ scrollTop >= 0 /\ viewportHeight >= 0) =>
        LET offs == offsets
            hs == heights
        IN  Contains(visibleRange,
                     {i \in Indices : TouchesViewport(offs, hs, i)})

\* C1 amended: the same for the paragraphs whose half-open extent
\* [offsets[i], offsets[i] + heights[i]) meets the viewport; a paragraph
\* that ends exactly at scrollTop is not counted as visible.
C1_WindowContainment ==
    (Windowed /\ scrollTop >= 0 /\ viewportHeight >= 0) =>
        LET offs == offsets
            hs == heights
        IN  Contains(visibleRange,
                     {i \in Indices : InViewport(offs, hs, i)})

\* A windowed state scrolled onto a paragraph boundary in mid-document, with
\* more than 6 paragraphs on each side of the visible ones.
C1_Witness ==
    /\ Windowed
    /\ scrollTop > 0
    /\ viewportHeight > 0
    /\ LET offs == offsets
           range == visibleRange
       IN  /\ range.start > 0
           /\ range.end < Len(paragraphs)
           /\ \E i \in Indices : At(offs, i) = scrollTop

----------------------------------------------------------------------------
(* C2  Boundary clamping. *)

\* C2: in every reachable state 0 <= start <= end <= paragraphCount.
C2_BoundaryClamping ==
    LET range == visibleRange
    IN  /\ 0 <= range.start
        /\ range.start <= range.end
        /\ range.end <= Len(paragraphs)

\* A windowed state whose stored scrollTop lies beyond totalHeight.
C2_Witness ==
    /\ Windowed
    /\ scrollTop > totalHeight
    /\ visibleRange.end = Len(paragraphs)

----------------------------------------------------------------------------
(* C3  Offset table. *)

\* C3: in windowed mode the offset table has one entry per paragraph,
\* starts at 0, is the prefix sum of the heights and is non-decreasing.
C3_OffsetTable ==
    Windowed =>
        LET offs == offsets
            hs == heights
        IN  /\ Len(offs) = Len(paragraphs)
            /\ At(offs, 0) = 0
            /\ \A i \in Indices :
                  i + 1 < Len(paragraphs) =>
                      /\ At(offs, i + 1) = At(offs, i) + At(hs, i)
                      /\ At(offs, i) <= At(offs, i + 1)

\* A windowed state reached by growth, with heights that differ.
C3_Witness ==
    /\ Windowed
    /\ Len(paragraphs) \notin InitCounts
    /\ LET hs == heights
       IN  At(hs, 0) # At(hs, Len(hs) - 1)

----------------------------------------------------------------------------
(* C4  Locate correctness. *)

\* r is the largest index of offs whose offset is <= scroll, or 0 when
\* there is none.
IsLocated(offs, scroll, r) ==
    LET below == {i \in 0..(Len(offs) - 1) : At(offs, i) <= scroll}
    IN  IF below = {}
        THEN r = 0
        ELSE r \in below /\ \A i \in below : i <= r

\* The scroll offsets the search is tried on in a state: the stored one,
\* the positions of the containers and each of them one pixel up and down.
Probes ==
    LET base == {scrollTop} \cup {elScrollTop[e] : e \in Elements}
    IN  base \cup {x - 1 : x \in base} \cup {x + 1 : x \in base}

\* C4: findStartIndex returns the largest index i with offsets[i] <= scroll,
\* 0 when the table is empty or every offset is larger; a scroll offset
\* equal to offsets[k] gives k.
C4_LocateCorrectness ==
    LET offs == offsets
    IN  \A scroll \in Probes :
            LET r == findStartIndexIn(offs, scroll)
            IN  /\ IsLocated(offs, scroll, r)
                /\ \A k \in 0..(Len(offs) - 1) :
                      At(offs, k) = scroll => r = k

\* A windowed state whose stored scrollTop is the offset of a paragraph
\* other than the first.
C4_Witness ==
    /\ Windowed
    /\ LET offs == offsets
       IN  /\ \E k \in Indices : k > 0 /\ At(offs, k) = scrollTop
           /\ findStartIndexIn(offs, scrollTop) > 0

----------------------------------------------------------------------------
(* C5  Mode switch. *)

\* C5: the component is in windowed mode exactly when there are at least
\* 120 paragraphs and the stored width is at least 900, and in fixed mode
\* otherwise.
C5_ModeSwitch ==
    /\ renderMode \in {"fixed", "windowed"}
    /\ renderMode = "windowed"
          <=> (Len(paragraphs) >= 120 /\ containerWidth >= 900)

\* Both thresholds met exactly, the count by growth.
C5_Witness ==
    /\ phase = "mounted"
    /\ Len(paragraphs) = 120
    /\ containerWidth = 900
    /\ renderMode = "windowed"

----------------------------------------------------------------------------
(* C6  Rendered subset. *)

\* C6: mounted with the 160 paragraphs of the test, stored width 1000 and
\* viewport height 200 or 400, the component is in windowed mode and, with
\* the stored scrollTop 0 as after mount or 2000 as after the scroll and
\* its frame callback, renders more than 0 and fewer than 160 paragraphs;
\* at scrollTop 0 the window starts at 0.
C6_RenderedSubset ==
    ( /\ phase = "mounted"
      /\ paragraphs = TestParagraphs(160)
      /\ containerWidth = 1000
      /\ viewportHeight \in {200, 400}
      /\ scrollTop \in {0, 2000} ) =>
        /\ Windowed
        /\ scrollTop = 0 => visibleRange.start = 0
        /\ renderedCount > 0
        /\ renderedCount < 160

\* The end of the test: the container was given at mount, was scrolled to
\* 2000 and the frame callback has run.
C6_Witness ==
    /\ phase = "mounted"
    /\ paragraphs = TestParagraphs(160)
    /\ scrollElement = "ext"
    /\ listeners = {"ext"}
    /\ containerWidth = 1000
    /\ viewportHeight = 200
    /\ elScrollTop["ext"] = 2000
    /\ scrollTop = 2000
    /\ rafId # 0
    /\ pendingFrames = {}
    /\ renderedCount < 160

----------------------------------------------------------------------------
(* C7  Scroll coalescing. *)

\* C7: at most one frame callback of the component is pending.
C7_ScrollCoalescing == Cardinality(pendingFrames) <= 1

\* A frame is pending whose handle shows that it is not the first request.
C7_Witness ==
    /\ phase = "mounted"
    /\ rafId = 2
    /\ pendingFrames = {2}

----------------------------------------------------------------------------
(* C8  A scroll event while a frame is pending. *)

\* C8 as stated: a scroll event handled while a frame callback is pending
\* keeps that callback and requests no new frame.
C8_PendingCallbackKept ==
    [][(ScrollHandled /\ pendingFrames # {})
          => (pendingFrames' = pendingFrames /\ rafId' = rafId)]_vars

\* C8 amended: a scroll event handled while a frame callback is pending
\* cancels that callback and requests one new frame in its place, so that
\* one callback is pending afterwards, not two.
C8_PendingCallbackReplaced ==
    [][(ScrollHandled /\ pendingFrames # {})
          => /\ Cardinality(pendingFrames') = 1
             /\ pendingFrames' \cap pendingFrames = {}
             /\ pendingFrames' = {rafId'}]_vars

\* A frame is pending for a container scrolled again since the stored
\* scrollTop was read.
C8_Witness ==
    /\ phase = "mounted"
    /\ readElement \in listeners
    /\ pendingFrames = {rafId}
    /\ rafId = 2
    /\ scrollTop # elScrollTop[readElement]

----------------------------------------------------------------------------
(* C9  No scroll update is lost. *)

\* The container the component reads is scrolled in this step.
ContainerScrolled ==
    /\ phase = "mounted"
    /\ elScrollTop'[readElement] # elScrollTop[readElement]

\* A frame callback of the component runs in this step.
FrameRan == \E id \in pendingFrames : Frame(id)

\* C9: while mounted, a scroll of the container leaves a frame callback
\* pending, and the callback that runs stores the position the container
\* has then; with every pending callback run, the stored scrollTop follows
\* the container.
C9_NoScrollUpdateLost ==
    /\ [][ContainerScrolled => pendingFrames' # {}]_vars
    /\ [][(FrameRan /\ phase = "mounted")
            => scrollTop' = elScrollTop[readElement]]_vars
    /\ (phase = "mounted" /\ pendingFrames # {})
           ~> (pendingFrames = {} \/ phase # "mounted")

----------------------------------------------------------------------------
(* C10  Unmount cancels pending work. *)

\* C10: after unmount no frame callback of the component is pending and
\* the stored scrollTop, viewportHeight and viewportWidth do not change.
C10_UnmountCancels ==
    /\ [](phase = "unmounted" => pendingFrames = {})
    /\ [][phase = "unmounted" => UNCHANGED refs]_vars

----------------------------------------------------------------------------
(* C11  Listener release. *)

\* C11: after unmount the scroll listener and the size-change observer of
\* the component are registered on no element.
C11_ListenersReleased ==
    phase = "unmounted" => (listeners = {} /\ observed = {})

----------------------------------------------------------------------------
(* C12  Resize before scroll. *)

\* A resize notification reached updateViewport in this step.
ResizeHandled ==
    /\ phase = "mounted"
    /\ \E e \in observed :
          <<clientWidth'[e], clientHeight'[e]>>
              # <<clientWidth[e], clientHeight[e]>>

\* C12: the resize handler stores the width it reads before the step ends,
\* and in every state the height table is the estimate of each paragraph
\* at the stored width and the offset table the prefix sums of that table,
\* one entry per paragraph, so that a scroll handled later reads them.
C12_TablesFollowResize ==
    /\ [][ResizeHandled
            => /\ containerWidth' = clientWidth'[readElement]
               /\ viewportHeight' = clientHeight'[readElement]]_vars
    /\ [](LET hs == heights
              offs == offsets
          IN  /\ Len(hs) = Len(paragraphs)
              /\ \A i \in Indices :
                    At(hs, i) = estimateHeightAt(paragraphs[i + 1],
                                                 containerWidth)
              /\ Windowed =>
                    /\ Len(offs) = Len(paragraphs)
                    /\ \A i \in Indices :
                          At(offs, i + 1) =
                              IF i + 1 < Len(offs)
                              THEN At(offs, i) + At(hs, i)
                              ELSE 0)

\* A frame callback is pending in windowed mode at the threshold width,
\* where the tables differ from those of width 1000.
C12_Witness ==
    /\ phase = "mounted"
    /\ pendingFrames # {}
    /\ containerWidth = 900
    /\ Windowed
    /\ heights # heightsOf(paragraphs, 1000)

----------------------------------------------------------------------------
(* C13  The scroll container is read-only. *)

\* C13: a step in which the scroll position of an element changes is a
\* scroll by the user alone: the props, the refs, the sizes and the
\* registrations are unchanged, and of the frames only what onScroll
\* replaces; no handler of the component moves a container.
C13_ContainerReadOnly ==
    [][elScrollTop' # elScrollTop
          => /\ UNCHANGED <<paragraphs, scrollElement, containerRef, phase,
                            clientWidth, clientHeight, refs, listeners,
                            observed>>
             /\ \E e \in Elements :
                   /\ \A o \in Elements \ {e} :
                         elScrollTop'[o] = elScrollTop[o]
                   /\ elScrollTop'[e] \in Scrolls(e)
                   /\ IF e \in listeners
                      THEN pendingFrames' = {rafId'}
                      ELSE UNCHANGED <<rafId, pendingFrames>>]_vars

\* The component has handled growth and a frame while its container stays
\* scrolled where the user left it.
C13_Witness ==
    /\ phase = "mounted"
    /\ Len(paragraphs) \notin InitCounts
    /\ rafId # 0
    /\ pendingFrames = {}
    /\ elScrollTop[readElement] = 2000
    /\ scrollTop = 2000

----------------------------------------------------------------------------
(* C14  Geometry read on mount. *)

\* C14: when mount completes, the stored viewportHeight, viewportWidth and
\* scrollTop are the container's clientHeight, clientWidth and scrollTop.
C14_GeometryReadOnMount ==
    [][(phase = "setup" /\ phase' = "mounted")
          => /\ viewportHeight' = clientHeight'[readElement']
             /\ containerWidth' = clientWidth'[readElement']
             /\ scrollTop' = elScrollTop'[readElement']]_vars

----------------------------------------------------------------------------
(* C15  Empty input. *)

\* C15: with no paragraphs the window is {start: 0, end: 0}, totalHeight
\* and topPadding are 0 and no paragraph is rendered, whatever the geometry
\* and the scroll offset.
C15_EmptyInput ==
    Len(paragraphs) = 0
        => /\ visibleRange = [start |-> 0, end |-> 0]
           /\ totalHeight = 0
           /\ topPadding = 0
           /\ renderedCount = 0

\* No paragraphs on a mounted list wide enough for the windowed mode,
\* scrolled off the top.
C15_Witness ==
    /\ Len(paragraphs) = 0
    /\ phase = "mounted"
    /\ containerWidth >= MIN_VIRTUAL_WIDTH
    /\ scrollTop > 0

----------------------------------------------------------------------------
(* C16  Degenerate viewport. *)

\* The container read reports a zero width or a zero height, and it is
\* what the component has stored.
DegenerateViewport ==
    /\ phase = "mounted"
    /\ containerWidth = clientWidth[readElement]
    /\ viewportHeight = clientHeight[readElement]
    /\ (containerWidth = 0 \/ viewportHeight = 0)

\* updateViewport ran in this step, at mount or for a resize.
ViewportRead ==
    \/ phase = "setup" /\ phase' = "mounted"
    \/ ResizeHandled

\* A zero dimension read by updateViewport is stored as 0.
ZeroStoredAsZero ==
    ViewportRead
        => /\ clientWidth'[readElement'] = 0 => containerWidth' = 0
           /\ clientHeight'[readElement'] = 0 => viewportHeight' = 0

\* C16 as stated: a zero dimension is stored as 0 and the window of a
\* degenerate viewport is empty.
C16_DegenerateEmptyRange ==
    DegenerateViewport
        => /\ visibleRange.start = visibleRange.end
           /\ renderedCount = 0

\* C16: a zero dimension is stored as 0, and the window of a degenerate
\* viewport is a range 0 <= start <= end <= paragraphCount of positive
\* estimates; with width 0 it is the whole list in fixed mode, with height
\* 0 in windowed mode it is not empty, and it is empty only when there is
\* no paragraph.
C16_DegenerateValidRange ==
    /\ [][ZeroStoredAsZero]_vars
    /\ [](DegenerateViewport
            => LET range == visibleRange
               IN  /\ 0 <= range.start
                   /\ range.start <= range.end
                   /\ range.end <= Len(paragraphs)
                   /\ containerWidth = 0
                         => /\ renderMode = "fixed"
                            /\ range = [start |-> 0, end |-> Len(paragraphs)]
                   /\ Windowed => range.start < range.end
                   /\ (range.start = range.end) <=> (Len(paragraphs) = 0)
                   /\ \A i \in Indices :
                         estimateHeightAt(paragraphs[i + 1], containerWidth)
                             >= lineHeightPx + paragraphGap)

\* A container not laid out, width and height 0, under 160 paragraphs: all
\* of them are rendered.
C16_Witness ==
    /\ DegenerateViewport
    /\ containerWidth = 0
    /\ viewportHeight = 0
    /\ Len(paragraphs) = 160
    /\ renderedCount = 160

----------------------------------------------------------------------------
(* C17  Scroll offsets out of range. *)

ClampScroll(scroll, total) == Max(0, Min(scroll, total))

\* Windowed mode with the stored scroll offset outside [0, totalHeight].
ScrollOutOfRange ==
    /\ Windowed
    /\ (scrollTop < 0 \/ scrollTop > totalHeight)

\* The window of the stored scroll offset clamped into [0, totalHeight].
ClampedRange ==
    visibleRangeOf(paragraphs, containerWidth,
                   ClampScroll(scrollTop, totalHeight), viewportHeight)

\* C17 as stated: the window of a scroll offset out of range is the window
\* of the clamped offset.
C17_WindowOfClampedScroll ==
    ScrollOutOfRange => visibleRange = ClampedRange

\* C17: the window of a scroll offset out of range starts where the window
\* of the clamped offset starts; above totalHeight it ends there too, and
\* below 0 it starts at 0 and ends no later than that window.
C17_StartOfClampedScroll ==
    ScrollOutOfRange
        => LET range == visibleRange
               clamped == ClampedRange
           IN  /\ range.start = clamped.start
               /\ scrollTop > 0 => range.end = clamped.end
               /\ scrollTop < 0
                     => /\ range.start = 0
                        /\ range.end <= clamped.end

\* A negative scroll offset whose window ends before the window of 0.
C17_Witness ==
    /\ ScrollOutOfRange
    /\ scrollTop < 0
    /\ visibleRange.end < ClampedRange.end

----------------------------------------------------------------------------
(* C18  End of the document. *)

\* The scroll offset totalHeight - 1, and the stored one if it is at the
\* end of the document or beyond it.
EndProbes ==
    LET total == totalHeight
    IN  {total - 1} \cup (IF scrollTop >= total - 1 THEN {scrollTop} ELSE {})

\* C18: in windowed mode a scroll offset of totalHeight - 1 or more gives
\* the window from max(0, paragraphCount - 1 - 6) to paragraphCount.
C18_EndOfDocument ==
    Windowed
        => \A s \in EndProbes :
              LET range == visibleRangeOf(paragraphs, containerWidth, s,
                                          viewportHeight)
              IN  /\ range.end = Len(paragraphs)
                  /\ range.start = Max(0, Len(paragraphs) - 1 - 6)

\* The list is scrolled beyond its end in windowed mode.
C18_Witness ==
    /\ Windowed
    /\ phase = "mounted"
    /\ scrollTop > totalHeight
    /\ visibleRange.end = Len(paragraphs)

----------------------------------------------------------------------------
(* C19  Narrowing never shrinks the layout. *)

WidthProbes == {0, 1, 167, 168, 181, 182, 600, 640, 1000, 1200}
LengthProbes == {0, 1, 12, 13, 45, 46, 128, 300}

\* The estimate of a text of length L at width narrow is at least its
\* estimate at width wide.
EstimateKept(L, wide, narrow) ==
    estimateHeightAt(L, narrow) >= estimateHeightAt(L, wide)

NoEstimateShrinks(ps, wide, narrow) ==
    \A k \in 1..Len(ps) : EstimateKept(ps[k], wide, narrow)

\* The stored width decreases in this step, the paragraphs are the same.
WidthDecreases ==
    /\ paragraphs' = paragraphs
    /\ containerWidth' < containerWidth

\* C19 as stated: when the stored width decreases no estimate decreases
\* and totalHeight does not decrease.
C19_NarrowingNeverShrinks ==
    [][WidthDecreases
          => /\ NoEstimateShrinks(paragraphs, containerWidth, containerWidth')
             /\ totalHeightOf(paragraphs', containerWidth')
                   >= totalHeight]_vars

\* C19: when the stored width decreases to a width that is not 0, no
\* estimate decreases, and totalHeight does not decrease if the list is
\* still windowed; the same for the estimate of the probed lengths and
\* widths, 1200 and 600 among them.
C19_NarrowingToNonZero ==
    /\ [][(WidthDecreases /\ containerWidth' # 0)
            => /\ NoEstimateShrinks(paragraphs, containerWidth,
                                    containerWidth')
               /\ useVirtualizationOf(paragraphs', containerWidth')
                     => totalHeightOf(paragraphs', containerWidth')
                            >= totalHeight]_vars
    /\ [](phase = "setup"
            => /\ \A wide \in WidthProbes, narrow \in WidthProbes \ {0} :
                     narrow < wide
                         => \A L \in LengthProbes :
                               EstimateKept(L, wide, narrow)
               /\ totalHeightOf(paragraphs, 1000)
                     >= totalHeightOf(paragraphs, 1200))

\* The list is windowed at the threshold width, where paragraphs are
\* estimated higher than at width 1000.
C19_Witness ==
    /\ Windowed
    /\ containerWidth = 900
    /\ clientWidth[readElement] = 900
    /\ \E i \in Indices :
          estimateHeightAt(paragraphs[i + 1], 900)
              > estimateHeightAt(paragraphs[i + 1], 1000)
    /\ totalHeight > totalHeightOf(paragraphs, 1000)

----------------------------------------------------------------------------
(* C20  The formula of the estimate. *)

\* max(1, ceil(L / c)) * 28 + 16
EstimateOfLines(L, c) == Max(1, (L + c - 1) \div c) * 28 + 16

\* The characters per line as the claim has them, and as they are: a
\* stored width of 0 is replaced by 640, which holds 45 characters.
ClaimedCharsPerLine(W) == Max(12, W \div 14)
ActualCharsPerLine(W) == IF W = 0 THEN 45 ELSE Max(12, W \div 14)

\* The first and the last paragraph.
EndIndices == {0, Len(paragraphs) - 1} \cap Indices

\* C20 as stated: the estimate is max(1, ceil(L / c)) * 28 + 16 with
\* c = max(12, floor(W / 14)), also for W = 0.
C20_EstimateFormula ==
    /\ \A i \in EndIndices :
          estimateHeightAt(paragraphs[i + 1], containerWidth)
              = EstimateOfLines(paragraphs[i + 1],
                                ClaimedCharsPerLine(containerWidth))
    /\ phase = "setup"
          => \A L \in LengthProbes, W \in WidthProbes :
                estimateHeightAt(L, W)
                    = EstimateOfLines(L, ClaimedCharsPerLine(W))

\* C20: the estimate is max(1, ceil(L / c)) * 28 + 16 with
\* c = max(12, floor(W / 14)) for W > 0, so c = 12 for W < 182, and with
\* c = 45 for W = 0, where the width 640 is assumed.
C20_EstimateFormulaNonZero ==
    /\ \A i \in EndIndices :
          estimateHeightAt(paragraphs[i + 1], containerWidth)
              = EstimateOfLines(paragraphs[i + 1],
                                ActualCharsPerLine(containerWidth))
    /\ phase = "setup"
          => \A L \in LengthProbes, W \in WidthProbes :
                estimateHeightAt(L, W)
                    = EstimateOfLines(L, ActualCharsPerLine(W))

\* Paragraphs are estimated on a mounted list whose stored width is 0.
C20_Witness ==
    /\ phase = "mounted"
    /\ containerWidth = 0
    /\ clientWidth[readElement] = 0
    /\ Len(paragraphs) > 0
    /\ estimateHeightAt(paragraphs[1], containerWidth)
          # EstimateOfLines(paragraphs[1], ClaimedCharsPerLine(0))

----------------------------------------------------------------------------
(* C21  Append stability. *)

\* One paragraph is appended to a windowed list in this step; width, height
\* and the scroll positions of the elements are the same.
AppendedWindowed ==
    /\ Windowed
    /\ Len(paragraphs') = Len(paragraphs) + 1
    /\ SubSeq(paragraphs', 1, Len(paragraphs)) = paragraphs
    /\ UNCHANGED <<containerWidth, viewportHeight, elScrollTop>>

\* The stored scroll offset is the position of the container read.
ScrollTopSynced ==
    /\ readElement # NoEl
    /\ scrollTop = elScrollTop[readElement]

\* What C21 says of an append: the offsets of the paragraphs there before
\* are the same, a window that ended before the last paragraph is the same,
\* and the window is a range within the grown list.
WindowStable ==
    LET n == Len(paragraphs)
        before == visibleRange
        after == visibleRangeOf(paragraphs', containerWidth', scrollTop',
                                viewportHeight')
    IN  /\ SubSeq(offsetsOf(paragraphs', containerWidth'), 1, n) = offsets
        /\ before.end < n => after = before
        /\ 0 <= after.start
        /\ after.start <= after.end
        /\ after.end <= n + 1

\* C21 as stated: every append to a windowed list is stable.
C21_AppendStable ==
    [][AppendedWindowed => WindowStable]_vars

\* C21: an append to a windowed list whose stored scroll offset is the
\* position of its container is stable; for every other append the offsets
\* of the paragraphs there before are the same and the window is a range
\* within the grown list.
C21_AppendStableWhenSynced ==
    [][AppendedWindowed
          => /\ ScrollTopSynced => WindowStable
             /\ LET n == Len(paragraphs)
                    after == visibleRangeOf(paragraphs', containerWidth',
                                            scrollTop', viewportHeight')
                IN  /\ SubSeq(offsetsOf(paragraphs', containerWidth'), 1, n)
                          = offsets
                    /\ 0 <= after.start
                    /\ after.start <= after.end
                    /\ after.end <= n + 1]_vars

\* A windowed list has grown while scrolled mid-document: the window ends
\* before the paragraphs that were there before do.
C21_Witness ==
    /\ Windowed
    /\ phase = "mounted"
    /\ Len(paragraphs) \notin InitCounts
    /\ Len(paragraphs) > MIN_VIRTUAL_PARAGRAPHS
    /\ ScrollTopSynced
    /\ scrollTop = 2000
    /\ visibleRange.end < Len(paragraphs) - 1

----------------------------------------------------------------------------
(* C22  Space reservation. *)

\* heights[lo] + ... + heights[hi - 1], added in two halves.
RECURSIVE SumHeights(_, _, _)
SumHeights(hs, lo, hi) ==
    IF lo >= hi
    THEN 0
    ELSE IF hi = lo + 1
    THEN At(hs, lo)
    ELSE LET mid == (lo + hi) \div 2
         IN  SumHeights(hs, lo, mid) + SumHeights(hs, mid, hi)

\* C22: in windowed mode topPadding is offsets[start], the sum of the
\* heights before start, totalHeight is offsets[last] + heights[last], the
\* sum of all heights, and the padding, the heights of the window and the
\* heights after it add up to totalHeight.
C22_SpaceReservation ==
    Windowed
        => LET hs == heights
               offs == offsets
               range == visibleRange
               n == Len(paragraphs)
               total == totalHeight
               padding == topPadding
               above == SumHeights(hs, 0, range.start)
               within == SumHeights(hs, range.start, range.end)
               below == SumHeights(hs, range.end, n)
           IN  /\ padding = At(offs, range.start)
               /\ padding = above
               /\ total = At(offs, n - 1) + At(hs, n - 1)
               /\ total = above + within + below
               /\ padding + within + below = total

\* A window in the middle of the document: space is reserved before and
\* after it.
C22_Witness ==
    /\ Windowed
    /\ phase = "mounted"
    /\ topPadding > 0
    /\ visibleRange.end < Len(paragraphs)
    /\ containerWidth = 900

----------------------------------------------------------------------------
(* C23  Fixed mode renders everything. *)

\* C23: in fixed mode, fewer than 120 paragraphs or a stored width below
\* 900, the window is {0, paragraphCount}, the paragraphs rendered are the
\* whole sequence in order, and the offset table is empty.
C23_FixedRendersAll ==
    (Len(paragraphs) < 120 \/ containerWidth < 900)
        => /\ renderMode = "fixed"
           /\ visibleRange = [start |-> 0, end |-> Len(paragraphs)]
           /\ visibleItems = paragraphs
           /\ offsets = <<>>

\* 160 paragraphs on a mounted list too narrow for the windowed mode,
\* scrolled off the top.
C23_Witness ==
    /\ phase = "mounted"
    /\ Len(paragraphs) >= 160
    /\ containerWidth = 600
    /\ scrollTop = 2000
    /\ renderedCount = Len(paragraphs)

----------------------------------------------------------------------------
(* C25  Scroll handling only reads the tables. *)

\* A frame callback ran in this step: a pending frame is gone and it was
\* not cancelled by onScroll or at unmount.
FrameCallbackRan ==
    /\ pendingFrames' # pendingFrames
    /\ pendingFrames' \subseteq pendingFrames
    /\ rafId' = rafId
    /\ phase' = phase

\* C25: a step that handles a scroll event or runs its frame callback
\* leaves the stored width and height, the paragraphs, the mode, the
\* height table, the offset table and totalHeight as they are; of the
\* refs only scrollTop changes, and only in the frame callback.
C25_ScrollOnlyReads ==
    [][(ScrollHandled \/ FrameCallbackRan)
          => /\ UNCHANGED <<viewportHeight, containerWidth, paragraphs>>
             /\ ScrollHandled => UNCHANGED scrollTop
             /\ useVirtualizationOf(paragraphs', containerWidth')
                   = useVirtualization
             /\ FrameCallbackRan
                   => /\ heightsOf(paragraphs', containerWidth') = heights
                      /\ offsetsOf(paragraphs', containerWidth') = offsets
                      /\ totalHeightOf(paragraphs', containerWidth')
                            = totalHeight]_vars

\* A frame callback has stored a scroll offset of a windowed list whose
\* stored size is not the one its container has now.
C25_Witness ==
    /\ Windowed
    /\ phase = "mounted"
    /\ rafId # 0
    /\ pendingFrames = {}
    /\ scrollTop = 2000
    /\ scrollTop = elScrollTop[readElement]
    /\ containerWidth # clientWidth[readElement]

----------------------------------------------------------------------------
(* C26  The observed element is the element read. *)

\* C26: while mounted, the scroll listener and the observer are registered
\* on the element the handlers read, and on no other.
C26_ObservedIsRead ==
    phase = "mounted"
        => /\ listeners = {readElement}
           /\ observed = {readElement}

----------------------------------------------------------------------------
(* C27  Growth resynchronises the scroll offset. *)

\* The paragraph count changes in this step, the component is mounted.
CountChanged ==
    /\ phase = "mounted"
    /\ Len(paragraphs') # Len(paragraphs)

\* C27: the step that changes the paragraph count stores the position the
\* container has, whether a frame callback is pending or not, and leaves
\* the pending callback pending.
C27_GrowthResyncs ==
    [][CountChanged
          => /\ scrollTop' = elScrollTop'[readElement']
             /\ UNCHANGED <<rafId, pendingFrames>>]_vars

\* The list has grown and a frame callback is pending; the stored scroll
\* offset is the position of the container, off the top.
C27_Witness ==
    /\ phase = "mounted"
    /\ Len(paragraphs) \notin InitCounts
    /\ pendingFrames # {}
    /\ scrollTop = elScrollTop[readElement]
    /\ scrollTop = 2016

----------------------------------------------------------------------------
(* C28  The rendered count is bounded. *)

\* 13 + ceil((viewportHeight + 168) / 44)
RenderBound(height) == 13 + CeilDiv(height + 168, 44)

\* C28: in windowed mode the window holds at most
\* 13 + ceil((viewportHeight + 168) / 44) paragraphs, for the stored scroll
\* offset and for the position of the container read.
C28_RenderedCountBounded ==
    Windowed
        => /\ renderedCount <= RenderBound(viewportHeight)
           /\ \A s \in {elScrollTop[e] : e \in {readElement} \cap Elements} :
                 LET range == visibleRangeOf(paragraphs, containerWidth, s,
                                             viewportHeight)
                 IN  range.end - range.start <= RenderBound(viewportHeight)

\* A window in the middle of a list of more than 160 paragraphs that
\* renders fewer than a quarter of them.
C28_Witness ==
    /\ Windowed
    /\ phase = "mounted"
    /\ Len(paragraphs) > 160
    /\ viewportHeight > 0
    /\ scrollTop = 2000
    /\ renderedCount > 2 * overscan
    /\ 4 * renderedCount < Len(paragraphs)

----------------------------------------------------------------------------
(* Vocabulary of the store's properties. *)

\* Call c resolves, or rejects, in this step.
ResolvesNow(c) == InFlight(c) /\ calls'[c].settled = "resolved"
RejectsNow(c) == InFlight(c) /\ calls'[c].settled = "rejected"

\* The actions whose success sets gameState and plotState.
StateActions == {"initializeGame", "executePlayerAction", "loadGame",
                 "initializeRandomGame"}

\* What C24 says of a call that resolves, but for the player's name: the
\* store holds the game state and the plot state the backend returned to
\* the call, and isLoading is false.
HoldsReturned(c) ==
    /\ gameState' = calls[c].gameState
    /\ plotState' = calls'[c].plotState
    /\ plotState' \in PlotStates
    /\ isLoading' = FALSE

----------------------------------------------------------------------------
(* C24  The store's success contract. *)

\* C24 as stated: when one of the four actions resolves and no other store
\* action ran meanwhile, the store holds what the backend returned, and
\* after initializeGame with a name the script's player name is that name
\* trimmed.
C24_SuccessTrimmedName ==
    [][\A c \in Calls :
          (ResolvesNow(c) /\ calls[c].kind \in StateActions /\ calls[c].alone)
              => /\ HoldsReturned(c)
                 /\ (calls[c].kind = "initializeGame"
                        /\ calls[c].playerName # Absent)
                       => currentScript'.player_name
                              = Trim(calls[c].playerName)]_storeVars

\* C24: when one of the four actions resolves and no other store action
\* ran meanwhile, the store holds what the backend returned, and after
\* initializeGame the script's player name is the supplied name trimmed,
\* or the default name when no name is supplied or nothing is left of it.
C24_SuccessContract ==
    [][\A c \in Calls :
          (ResolvesNow(c) /\ calls[c].kind \in StateActions /\ calls[c].alone)
              => /\ HoldsReturned(c)
                 /\ calls[c].kind = "initializeGame"
                       => currentScript'.player_name
                              = IF calls[c].playerName = Absent
                                   \/ Trim(calls[c].playerName) = <<>>
                                THEN DefaultPlayerName
                                ELSE Trim(calls[c].playerName)]_storeVars

\* A call has resolved alone and the store holds a game, the plot state
\* returned to the call and a script whose player name was trimmed.
C24_Witness ==
    \E c \in Calls :
        /\ calls[c].settled = "resolved"
        /\ calls[c].alone
        /\ \A d \in Calls : ~InFlight(d)
        /\ gameState = "g2"
        /\ plotState = calls[c].plotState
        /\ plotState \in PlotStates
        /\ currentScript.player_name = <<"L", " ", "M">>
        /\ isLoading = FALSE

----------------------------------------------------------------------------
(* C29  The store's failure handling. *)

\* C29: when one of the five actions rejects, it rejects with the error of
\* the backend call that failed, after a recovery with the error that led
\* to it, error is a message and isLoading is false; a call that recovers
\* from a timeout never resolves.
C29_FailureHandling ==
    [][\A c \in Calls :
          /\ (RejectsNow(c) /\ calls[c].kind \in LoadingActions)
                => /\ error' # NoMessage
                   /\ isLoading' = FALSE
                   /\ calls'[c].thrown \in Errors
                   /\ calls[c].pc = "recover"
                         => calls'[c].thrown = calls[c].caught
          /\ calls[c].pc = "recover" => ~ResolvesNow(c)
          /\ calls'[c].pc = "recover"
                => Includes(messageOf(calls'[c].caught), AdvanceTimeout)]_storeVars

\* A call has rejected with the timeout of the plot's advance after the
\* recovery read diagnostics; the store shows them.
C29_Witness ==
    \E c \in Calls :
        /\ calls[c].settled = "rejected"
        /\ calls[c].thrown = [message |-> AdvanceTimeoutMessage]
        /\ \A d \in Calls : ~InFlight(d)
        /\ error = <<"diagnostics">>
        /\ plotState.id = "p2"
        /\ isLoading = FALSE

----------------------------------------------------------------------------
(* C30  The loading flag under overlap. *)

\* C30: isLoading is true while one of the five actions is under way.
C30_LoadingWhileInFlight ==
    (\E c \in Calls : InFlight(c) /\ calls[c].kind \in LoadingActions)
        => isLoading = TRUE

====
